---- MODULE Spec2Model ----
(***************************************************************************)
(* tweettopdf (src/app/page.tsx).                                          *)
(* Article content extraction: the author link scan, the classification    *)
(* pass of scrapeArticle over the container's elements, the trailing drop  *)
(* and the noise filter (filteredContent).                                 *)
(* The request handler POST: validation, dispatch to the article or the    *)
(* tweet path, scrapeArticle and generatePDF with the browser they launch. *)
(***************************************************************************)
EXTENDS Integers, Sequences, FiniteSets, TLC

VARIABLES
    allElements,        \* container.querySelectorAll(...) in document order
    title,              \* extracted title
    authorName,         \* extracted display name
    authorHandle,       \* extracted handle
    idx,                \* number of elements the for-of loop has consumed
    content,            \* content[] being built
    seenTexts,
    seenImages,
    foundFirstContent,
    reachedFooter,
    headerImageCount,
    skippedAfterTitle,
    foundRealParagraph, \* flag of the filter callback
    filteredContent,    \* result array of content.filter(...)
    fidx,               \* number of items the filter callback has seen
    pc,                 \* position in the evaluate callback:
                        \* "author" | "scanned" | "pass" | "filter" | "done"
    userLinks,          \* document.querySelectorAll('a[href*="/"]')
    lidx,               \* number of links the author scan has consumed
    request,            \* the request POST was called with
    ppc,                \* position in POST
    response,           \* the response POST returns
    fileId,
    error,              \* the exception in flight, "" for none
    openBrowsers,       \* browsers launched and not closed
    launched,           \* calls of getBrowser
    scrapeCalls,        \* calls of scrapeArticle
    fetchCalls,         \* calls of fetchTweetData
    pdfCalls            \* calls of generatePDF

vars == <<allElements, title, authorName, authorHandle, idx, content, seenTexts,
          seenImages, foundFirstContent, reachedFooter, headerImageCount,
          skippedAfterTitle, foundRealParagraph, filteredContent, fidx, pc,
          userLinks, lidx, request, ppc, response, fileId, error, openBrowsers,
          launched, scrapeCalls, fetchCalls, pdfCalls>>

meta == <<allElements, title, authorName, authorHandle>>

passVars == <<idx, content, seenTexts, seenImages, foundFirstContent,
              reachedFooter, headerImageCount, skippedAfterTitle>>

filterVars == <<foundRealParagraph, filteredContent, fidx>>

linkVars == <<userLinks, lidx>>

postVars == <<request, ppc, response, fileId, error, openBrowsers, launched,
              scrapeCalls, fetchCalls, pdfCalls>>

-----------------------------------------------------------------------------
(* Bounds of the model *)

MaxLen == 3         \* longest freely chosen element sequence
MaxLead == 7        \* longest run of short paragraphs put before a tail
MaxTail == 2        \* longest freely chosen tail after such a run
MaxImages == 4      \* largest N of the N-image inputs
MaxItems == 3       \* longest content sequence given to the filter alone
MaxLinks == 3       \* longest link sequence given to the author scan

-----------------------------------------------------------------------------
(* Strings: the JavaScript string operations the code uses *)

UpperAlpha == "ABCDEFGHIJKLMNOPQRSTUVWXYZ"
LowerAlpha == "abcdefghijklmnopqrstuvwxyz"
Digits == "0123456789"

Char(s, k) == SubSeq(s, k, k)

Chars(s) == {Char(s, k) : k \in 1..Len(s)}

UpperChars == Chars(UpperAlpha)
LowerChars == Chars(LowerAlpha)
DigitChars == Chars(Digits)

\* the lower-case letter of each upper-case letter
LowerOf ==
    [c \in UpperChars |->
        Char(LowerAlpha, CHOOSE k \in 1..26 : Char(UpperAlpha, k) = c)]

LowerChar(c) == IF c \in UpperChars THEN LowerOf[c] ELSE c

\* the two strings are equal up to the case of their letters
SameIgnoringCase(s, p) ==
    /\ Len(s) = Len(p)
    /\ \A k \in 1..Len(p) : LowerChar(Char(s, k)) = LowerChar(Char(p, k))

IsSpace(c) == c \in {" ", "\t", "\n"}
IsDigit(c) == c \in DigitChars
IsWordChar(c) == c \in UpperChars \/ c \in LowerChars \/ c \in DigitChars \/ c = "_"

\* String.prototype.trim
RECURSIVE trim(_)
trim(s) ==
    IF s = "" THEN ""
    ELSE IF IsSpace(Char(s, 1)) THEN trim(SubSeq(s, 2, Len(s)))
    ELSE IF IsSpace(Char(s, Len(s))) THEN trim(SubSeq(s, 1, Len(s) - 1))
    ELSE s

\* String.prototype.startsWith
startsWith(s, p) == Len(s) >= Len(p) /\ SubSeq(s, 1, Len(p)) = p

\* String.prototype.includes
includes(s, p) ==
    \E k \in 1..(Len(s) - Len(p) + 1) : SubSeq(s, k, k + Len(p) - 1) = p

\* /^p/i
TestPrefixI(s, p) ==
    Len(s) >= Len(p) /\ SameIgnoringCase(SubSeq(s, 1, Len(p)), p)

\* /^p$/i
TestExactI(s, p) == SameIgnoringCase(s, p)

\* /^@\w+$/
TestHandleOnly(s) ==
    /\ Len(s) >= 2
    /\ Char(s, 1) = "@"
    /\ \A k \in 2..Len(s) : IsWordChar(Char(s, k))

Months == {"Jan", "Feb", "Mar", "Apr", "May", "Jun",
           "Jul", "Aug", "Sep", "Oct", "Nov", "Dec"}

\* /^(Jan|Feb|...|Dec)\s+\d+$/
TestDateStamp(s) ==
    /\ Len(s) >= 5
    /\ SubSeq(s, 1, 3) \in Months
    /\ \E d \in 5..Len(s) :
          /\ \A k \in 4..(d - 1) : IsSpace(Char(s, k))
          /\ \A k \in d..Len(s) : IsDigit(Char(s, k))

\* skipPatterns.some(p => p.test(text))
skipPatterns(text) ==
    \/ TestPrefixI(text, "To view keyboard")
    \/ TestPrefixI(text, "View keyboard")
    \/ TestExactI(text, "Log in")
    \/ TestExactI(text, "Sign up")
    \/ TestHandleOnly(text)
    \/ TestDateStamp(text)
    \/ text = "Â·"
    \/ TestPrefixI(text, "More from")
    \/ TestExactI(text, "Follow")
    \/ TestExactI(text, "Repost")
    \/ TestExactI(text, "Quote")
    \/ TestExactI(text, "Like")
    \/ TestExactI(text, "Bookmark")
    \/ TestExactI(text, "Share")
    \/ TestExactI(text, "Copy link")

-----------------------------------------------------------------------------
(* The elements of the container: what the pass reads of each element *)

El(tag, text) ==
    [tagName |-> tag, textContent |-> text, fontWeight |-> 400, fontSize |-> 16,
     src |-> "", hasBlockChildren |-> FALSE]

Img(url) == [El("IMG", "") EXCEPT !.src = url]

Container(text) == [El("DIV", text) EXCEPT !.hasBlockChildren = TRUE]

Styled(tag, text, weight, size) ==
    [El(tag, text) EXCEPT !.fontWeight = weight, !.fontSize = size]

LongText == "This is a long enough paragraph to count as real content for sure."
FortyText == "A line of exactly forty characters here."
SixtyText == "The second paragraph of the article continues this argument."
CaptionText == "A caption under the picture"
LongCta == "Click to Subscribe and receive every new article by email."

MediaUrl(k) == "https://pbs.twimg.com/media" \o Char(Digits, k + 1)

PLong == El("P", LongText)
PShort == El("P", "short")
PForty == El("P", FortyText)
PFooter == El("P", "More from Real Author")
DivAuthor == El("DIV", " Real Author ")

ElementViews ==
    {PLong, PShort, PForty, PFooter, DivAuthor,
     El("H2", "Intro"),
     El("P", LongCta),
     Styled("SPAN", "Section heading", 700, 24),
     Container(LongText),
     Container("short"),
     Img(MediaUrl(1)), Img(MediaUrl(2)),
     Img("https://pbs.twimg.com/profile_images/1/a_normal.jpg")}

-----------------------------------------------------------------------------
(* The classification pass: the body of the for-of loop of scrapeArticle *)

push(s, type, value) ==
    [s EXCEPT !.content = Append(@, [type |-> type, value |-> value])]

QualifyingImage(src, seen) ==
    /\ src # ""
    /\ ~includes(src, "profile_images")
    /\ ~includes(src, "emoji")
    /\ ~includes(src, "icon")
    /\ ~includes(src, "svg")
    /\ src \notin seen
    /\ (includes(src, "pbs.twimg.com") \/ includes(src, "ton.twimg.com"))

\* two header images let through
IsHeroImage_FirstTwo(count) == count <= 2

\* headerImageCount === 1
IsHeroImage(count) == count = 1

HandleImage(s, el) ==
    IF QualifyingImage(el.src, s.seenImages)
    THEN LET s1 == [s EXCEPT !.seenImages = @ \cup {el.src}] IN
         IF ~s1.foundFirstContent
         THEN LET s2 == [s1 EXCEPT !.headerImageCount = @ + 1] IN
              IF IsHeroImage(s2.headerImageCount)
              THEN push(s2, "image", el.src)
              ELSE s2
         ELSE push(s1, "image", el.src)
    ELSE s

\* the skips before the footer check
SkippedText(text, s, m) ==
    \/ text = ""
    \/ Len(text) < 3
    \/ text \in s.seenTexts
    \/ skipPatterns(text)
    \/ text = m.authorName
    \/ text = m.authorHandle
    \/ text = m.title

IsFooter(text, found, name) ==
    startsWith(text, "More from") \/ (found /\ text = name)

isHeadingTag(tagName) == tagName \in {"H1", "H2", "H3", "H4"}

isStyledAsHeading(el, text) ==
    el.fontWeight >= 600 /\ el.fontSize >= 20 /\ Len(text) < 150

IsHeading(el, text) == isHeadingTag(el.tagName) \/ isStyledAsHeading(el, text)

\* the threshold read as "at least 40"
IsSubstantial_AtLeast(text) == Len(text) >= 40

\* text.length > 40
IsSubstantial(text) == Len(text) > 40

LeadInCap == 6

\* the cap applied one node early
LeadInDiscards_Strict(skipped) == skipped < LeadInCap

\* skippedAfterTitle <= 6, after the increment
LeadInDiscards(skipped) == skipped <= LeadInCap

\* the block under `if (!foundFirstContent)`: the state it leaves and whether
\* it ends the iteration with `continue`
LeadIn(s, el, text) ==
    IF s.foundFirstContent THEN [s |-> s, skip |-> FALSE]
    ELSE IF IsSubstantial(text) \/ IsHeading(el, text)
    THEN [s |-> [s EXCEPT !.foundFirstContent = TRUE, !.skippedAfterTitle = 0],
          skip |-> FALSE]
    ELSE LET s1 == [s EXCEPT !.skippedAfterTitle = @ + 1] IN
         [s |-> s1, skip |-> LeadInDiscards(s1.skippedAfterTitle)]

\* hasBlockChildren && tagName === 'DIV'
ContainerGuard(el) == el.hasBlockChildren /\ el.tagName = "DIV"

HandleText(s, el, m) ==
    LET text == trim(el.textContent) IN
    IF SkippedText(text, s, m) THEN s
    ELSE IF IsFooter(text, s.foundFirstContent, m.authorName)
    THEN [s EXCEPT !.reachedFooter = TRUE]
    ELSE LET r == LeadIn(s, el, text) IN
         IF r.skip THEN r.s
         ELSE IF ContainerGuard(el) THEN r.s
         ELSE LET s1 == [r.s EXCEPT !.seenTexts = @ \cup {text}] IN
              IF IsHeading(el, text)
              THEN push(s1, "text", "## " \o text)
              ELSE push(s1, "text", text)

LoopBody(s, el, m) ==
    IF el.tagName = "IMG" THEN HandleImage(s, el) ELSE HandleText(s, el, m)

\* the state of the pass before its first iteration
PassInit ==
    [content |-> <<>>, seenTexts |-> {}, seenImages |-> {},
     foundFirstContent |-> FALSE, reachedFooter |-> FALSE,
     headerImageCount |-> 0, skippedAfterTitle |-> 0]

\* the removal left out
TrailingDrop_None(c) == c

\* the removal kept for more than two items
TrailingDrop_MoreThanTwo(c) == IF Len(c) > 2 THEN SubSeq(c, 1, Len(c) - 1) ELSE c

\* the removal applied to a single item too
TrailingDrop_Single(c) == IF Len(c) >= 1 THEN SubSeq(c, 1, Len(c) - 1) ELSE c

\* Remove last line (usually footer)
TrailingDrop(c) == IF Len(c) > 1 THEN SubSeq(c, 1, Len(c) - 1) ELSE c

\* the pass over the first n elements of els
RECURSIVE RunPass(_, _, _)
RunPass(els, m, n) ==
    IF n = 0 THEN PassInit
    ELSE LET s == RunPass(els, m, n - 1) IN
         IF s.reachedFooter THEN s ELSE LoopBody(s, els[n], m)

-----------------------------------------------------------------------------
(* The noise filter: the callback of content.filter *)

rawTextOf(value) ==
    IF startsWith(value, "## ") THEN SubSeq(value, 4, Len(value)) ELSE value

IsCallToAction(rawText) ==
    \/ TestExactI(rawText, "Subscribe")
    \/ TestPrefixI(rawText, "Click to Subscribe")
    \/ TestPrefixI(rawText, "Click to Follow")

\* rawText.length >= 50
IsRealParagraph(rawText) == Len(rawText) >= 50

\* the comparison turned round
IsShortItem_Reversed(rawText) == Len(rawText) > 10

\* rawText.length < 10
IsShortItem(rawText) == Len(rawText) < 10

\* the callback without `foundRealParagraph = true`
FilterItem_NoFlag(item, flag) ==
    IF item.type = "image" THEN [keep |-> TRUE, flag |-> flag]
    ELSE LET rawText == rawTextOf(item.value) IN
         IF IsCallToAction(rawText) THEN [keep |-> FALSE, flag |-> flag]
         ELSE IF ~flag /\ IsShortItem(rawText) THEN [keep |-> FALSE, flag |-> flag]
         ELSE [keep |-> TRUE, flag |-> flag]

\* one call of the callback: what it returns and the flag it leaves
FilterItem(item, flag) ==
    IF item.type = "image" THEN [keep |-> TRUE, flag |-> flag]
    ELSE LET rawText == rawTextOf(item.value) IN
         IF IsCallToAction(rawText) THEN [keep |-> FALSE, flag |-> flag]
         ELSE IF ~flag
         THEN IF IsRealParagraph(rawText) THEN [keep |-> TRUE, flag |-> TRUE]
              ELSE IF IsShortItem(rawText) THEN [keep |-> FALSE, flag |-> flag]
              ELSE [keep |-> TRUE, flag |-> flag]
         ELSE [keep |-> TRUE, flag |-> flag]

\* content.filter(...) over the first n items of c: the items kept and the flag
RECURSIVE filterContent(_, _)
filterContent(c, n) ==
    IF n = 0 THEN [kept |-> <<>>, flag |-> FALSE]
    ELSE LET f == filterContent(c, n - 1)
             r == FilterItem(c[n], f.flag) IN
         [kept |-> IF r.keep THEN Append(f.kept, c[n]) ELSE f.kept,
          flag |-> r.flag]

\* the content the evaluate callback returns for the elements els
ExtractedContent(els, m) ==
    LET c == TrailingDrop(RunPass(els, m, Len(els)).content) IN
    filterContent(c, Len(c)).kept

-----------------------------------------------------------------------------
(* URLs: validation, dispatch and the ids *)

\* s.charAt(k), 1-based: "" outside the string
CharAt(s, k) == IF k \in 1..Len(s) THEN SubSeq(s, k, k) ELSE ""

\* the characters a..b of s, "" when the range is not inside the string
Slice(s, a, b) ==
    IF a >= 1 /\ b <= Len(s) /\ a <= b THEN SubSeq(s, a, b) ELSE ""

\* the least index k >= from such that s has one of the characters cs at k,
\* Len(s) + 1 for none
IndexOfAny(s, cs, from) ==
    IF \E k \in from..Len(s) : Char(s, k) \in cs
    THEN CHOOSE k \in from..Len(s) :
            /\ Char(s, k) \in cs
            /\ \A j \in from..(k - 1) : Char(s, j) \notin cs
    ELSE Len(s) + 1

\* new URL(url) for an absolute http(s) URL written without port, user info,
\* dot segments or backslashes: the host up to the first "/", "?" or "#",
\* the path up to the first "?" or "#"; anything else throws
ParseUrl(url) ==
    LET start == IF startsWith(url, "https://") THEN 9
                 ELSE IF startsWith(url, "http://") THEN 8
                 ELSE 0
        hostEnd == IndexOfAny(url, {"/", "?", "#"}, start)
        pathEnd == IndexOfAny(url, {"?", "#"}, hostEnd)
        host == Slice(url, start, hostEnd - 1)
        path == Slice(url, hostEnd, pathEnd - 1) IN
    IF start = 0 \/ host = "" \/ \E k \in 1..Len(host) : IsSpace(Char(host, k))
    THEN [ok |-> FALSE, hostname |-> "", pathname |-> ""]
    ELSE [ok |-> TRUE, hostname |-> host,
          pathname |-> IF path = "" THEN "/" ELSE path]

validHosts == {"twitter.com", "www.twitter.com", "x.com", "www.x.com"}

\* validHosts.includes(parsed.hostname): the parser has lower-cased the host
IsValidHost(hostname) == \E h \in validHosts : SameIgnoringCase(hostname, h)

\* pathname.match(/^\/\w+\/status\/\d+/)
TestTweetPath(pathname) ==
    \E n \in 1..Len(pathname) :
        /\ CharAt(pathname, 1) = "/"
        /\ \A k \in 2..(n + 1) : IsWordChar(CharAt(pathname, k))
        /\ Slice(pathname, n + 2, n + 9) = "/status/"
        /\ IsDigit(CharAt(pathname, n + 10))

\* pathname.match(/^\/i\/article\/\d+/)
TestArticlePath(pathname) ==
    /\ startsWith(pathname, "/i/article/")
    /\ IsDigit(CharAt(pathname, 12))

\* the host test left out
isValidTwitterUrl_AnyHost(url) ==
    LET parsed == ParseUrl(url) IN
    /\ parsed.ok
    /\ TestTweetPath(parsed.pathname) \/ TestArticlePath(parsed.pathname)

isValidTwitterUrl(url) ==
    LET parsed == ParseUrl(url) IN
    /\ parsed.ok
    /\ IsValidHost(parsed.hostname)
    /\ TestTweetPath(parsed.pathname) \/ TestArticlePath(parsed.pathname)

\* s.match(/<word>(\d+)/): the digits of the first match, "" for null
MatchId(s, word) ==
    LET n == Len(word)
        At(k) == Slice(s, k, k + n - 1) = word /\ IsDigit(CharAt(s, k + n)) IN
    IF \E k \in 1..Len(s) : At(k)
    THEN LET k == CHOOSE k \in 1..Len(s) : At(k) /\ \A j \in 1..(k - 1) : ~At(j)
             e == CHOOSE e \in (k + n)..Len(s) :
                     /\ \A j \in (k + n)..e : IsDigit(CharAt(s, j))
                     /\ e = Len(s) \/ ~IsDigit(CharAt(s, e + 1)) IN
         Slice(s, k + n, e)
    ELSE ""

extractTweetId(url) == MatchId(url, "status/")

extractArticleId(url) == MatchId(url, "article/")

isArticleUrl(url) == includes(url, "/i/article/")

-----------------------------------------------------------------------------
(* The author scan over the links of the document *)

\* href.match(/x\.com\/\w+$/)
TestProfileRoot(href) ==
    \E k \in 1..(Len(href) - 6) :
        /\ SubSeq(href, k, k + 5) = "x.com/"
        /\ \A j \in (k + 6)..Len(href) : IsWordChar(Char(href, j))

\* href.match(/x\.com\/\w+$/) && !href.includes('/i/')
IsUserLink(href) == TestProfileRoot(href) /\ ~includes(href, "/i/")

Link(href, text) == [href |-> href, textContent |-> text]

\* one iteration of `for (const link of Array.from(userLinks))`
ScanLink(s, link) ==
    IF ~IsUserLink(link.href) THEN s
    ELSE LET text == trim(link.textContent)
             t == IF startsWith(text, "@")
                  THEN [s EXCEPT !.authorHandle = text]
                  ELSE IF text # "" /\ s.authorName = "" /\ Len(text) < 50
                  THEN [s EXCEPT !.authorName = text]
                  ELSE s IN
         [t EXCEPT !.stopped = (t.authorName # "" /\ t.authorHandle # "")]

\* let authorName = ''; let authorHandle = ''
ScanInit == [authorName |-> "", authorHandle |-> "", stopped |-> FALSE]

\* the scan over the first n links
RECURSIVE ScanLinks(_, _)
ScanLinks(links, n) ==
    IF n = 0 THEN ScanInit
    ELSE LET s == ScanLinks(links, n - 1) IN
         IF s.stopped THEN s ELSE ScanLink(s, links[n])

-----------------------------------------------------------------------------
(* Inputs *)

SeqsUpTo(S, n) == UNION {[1..k -> S] : k \in 0..n}

Repeat(e, k) == [j \in 1..k |-> e]

\* text elements the pass accepts when they come first
AcceptedTexts ==
    {PLong, El("H2", "Intro"), El("P", LongCta),
     Styled("SPAN", "Section heading", 700, 24)}

\* N distinct qualifying images, the text element t put after the first
ImagesWithText(n, t) ==
    <<Img(MediaUrl(1)), t>> \o [j \in 1..(n - 1) |-> Img(MediaUrl(j + 1))]

ImagesOnly(n) == [j \in 1..n |-> Img(MediaUrl(j))]

\* the end-to-end scenario of the specification's section 8
Scenario ==
    <<El("H1", "My Title"), El("DIV", "@follow_me"), El("DIV", "Real Author"),
      El("SPAN", "Follow")>>
    \o Repeat(PShort, 6)
    \o <<PLong, Img("https://pbs.twimg.com/media1"), PFooter>>

Inputs ==
    SeqsUpTo(ElementViews, MaxLen)
    \cup {Repeat(PShort, k) \o t :
             k \in 1..MaxLead, t \in SeqsUpTo(ElementViews, MaxTail)}
    \cup {ImagesWithText(n, t) : n \in 2..MaxImages, t \in AcceptedTexts}
    \cup {ImagesOnly(n) : n \in 2..MaxImages}
    \cup {Scenario}

\* the display names the author scan can have extracted
AuthorNames == {"", "Real Author"}

Para(text) == [type |-> "text", value |-> text]
Image(url) == [type |-> "image", value |-> url]

ContentItems ==
    {Para("short"), Para("Tiny one"), Para(CaptionText), Para(SixtyText),
     Para("Subscribe"), Para(LongCta), Para("## Intro"), Image(MediaUrl(1))}

\* content sequences as the pass leaves them: no value twice
FilterInputs ==
    {c \in SeqsUpTo(ContentItems, MaxItems) :
        \A j, k \in 1..Len(c) : j # k => c[j] # c[k]}

LongName == "A display name that is fifty characters long, yes."

\* links of a page: the author's name and handle, another user's name and
\* handle, an avatar link without text, a name of 50 characters, a link
\* that is no profile root and a link below /i/
UserLinkViews ==
    {Link("https://x.com/real_author", " Real Author "),
     Link("https://x.com/real_author", "@real_author"),
     Link("https://x.com/other_user", "Other User"),
     Link("https://x.com/other_user", "@other_user"),
     Link("https://x.com/real_author", ""),
     Link("https://x.com/long_name", LongName),
     Link("https://x.com/real_author/status/1", "@not_a_root"),
     Link("https://x.com/i/x.com/flow", "@internal")}

LinkInputs == SeqsUpTo(UserLinkViews, MaxLinks)

-----------------------------------------------------------------------------
(* The state machine *)

Meta == [title |-> title, authorName |-> authorName, authorHandle |-> authorHandle]

PassState ==
    [content |-> content, seenTexts |-> seenTexts, seenImages |-> seenImages,
     foundFirstContent |-> foundFirstContent, reachedFooter |-> reachedFooter,
     headerImageCount |-> headerImageCount, skippedAfterTitle |-> skippedAfterTitle]

SetPassState(s) ==
    /\ content' = s.content
    /\ seenTexts' = s.seenTexts
    /\ seenImages' = s.seenImages
    /\ foundFirstContent' = s.foundFirstContent
    /\ reachedFooter' = s.reachedFooter
    /\ headerImageCount' = s.headerImageCount
    /\ skippedAfterTitle' = s.skippedAfterTitle

InitPass ==
    /\ idx = 0
    /\ seenTexts = PassInit.seenTexts
    /\ seenImages = PassInit.seenImages
    /\ foundFirstContent = PassInit.foundFirstContent
    /\ reachedFooter = PassInit.reachedFooter
    /\ headerImageCount = PassInit.headerImageCount
    /\ skippedAfterTitle = PassInit.skippedAfterTitle
    /\ foundRealParagraph = FALSE
    /\ filteredContent = <<>>
    /\ fidx = 0

\* no link scan in progress
NoLinks ==
    /\ userLinks = <<>>
    /\ lidx = 0

NoResponse == [status |-> 0, error |-> "", filename |-> ""]

NoRequest == [parses |-> FALSE, url |-> "", authToken |-> ""]

\* no request in progress
NoPost ==
    /\ request = NoRequest
    /\ ppc = "idle"
    /\ response = NoResponse
    /\ fileId = ""
    /\ error = ""
    /\ openBrowsers = 0
    /\ launched = 0
    /\ scrapeCalls = 0
    /\ fetchCalls = 0
    /\ pdfCalls = 0

Init ==
    /\ allElements \in Inputs
    /\ title = "My Title"
    /\ authorName \in AuthorNames
    /\ authorHandle = "@follow_me"
    /\ InitPass
    /\ content = PassInit.content
    /\ pc = "pass"
    /\ NoLinks
    /\ NoPost

\* one iteration of `for (const el of Array.from(allElements))`
ClassifyStep ==
    /\ pc = "pass"
    /\ idx < Len(allElements)
    /\ ~reachedFooter
    /\ SetPassState(LoopBody(PassState, allElements[idx + 1], Meta))
    /\ idx' = idx + 1
    /\ UNCHANGED <<meta, filterVars, pc, linkVars, postVars>>

\* the loop ends; the last line is removed and the filter starts
EndPass ==
    /\ pc = "pass"
    /\ idx = Len(allElements) \/ reachedFooter
    /\ content' = TrailingDrop(content)
    /\ foundRealParagraph' = FALSE
    /\ filteredContent' = <<>>
    /\ fidx' = 0
    /\ pc' = "filter"
    /\ UNCHANGED <<meta, idx, seenTexts, seenImages, foundFirstContent,
                   reachedFooter, headerImageCount, skippedAfterTitle,
                   linkVars, postVars>>

\* one call of the filter callback
FilterStep ==
    /\ pc = "filter"
    /\ fidx < Len(content)
    /\ LET item == content[fidx + 1]
           r == FilterItem(item, foundRealParagraph) IN
       /\ foundRealParagraph' = r.flag
       /\ filteredContent' = IF r.keep THEN Append(filteredContent, item)
                                       ELSE filteredContent
    /\ fidx' = fidx + 1
    /\ UNCHANGED <<meta, passVars, pc, linkVars, postVars>>

\* content.length = 0; content.push(...filteredContent)
StoreFiltered ==
    /\ pc = "filter"
    /\ fidx = Len(content)
    /\ content' = filteredContent
    /\ pc' = "done"
    /\ UNCHANGED <<meta, idx, seenTexts, seenImages, foundFirstContent,
                   reachedFooter, headerImageCount, skippedAfterTitle, filterVars,
                   linkVars, postVars>>

Next == ClassifyStep \/ EndPass \/ FilterStep \/ StoreFiltered

Spec == Init /\ [][Next]_vars

\* the filter alone, over the content sequences the pass can leave
InitFilter ==
    /\ allElements = <<>>
    /\ title = "My Title"
    /\ authorName \in AuthorNames
    /\ authorHandle = "@follow_me"
    /\ InitPass
    /\ content \in FilterInputs
    /\ pc = "filter"
    /\ NoLinks
    /\ NoPost

NextFilter == FilterStep \/ StoreFiltered

SpecFilter == InitFilter /\ [][NextFilter]_vars

\* the author scan alone, over the link sequences of LinkInputs
InitAuthor ==
    /\ userLinks \in LinkInputs
    /\ lidx = 0
    /\ authorName = ScanInit.authorName
    /\ authorHandle = ScanInit.authorHandle
    /\ allElements = <<>>
    /\ title = ""
    /\ InitPass
    /\ content = PassInit.content
    /\ pc = "author"
    /\ NoPost

ScanState ==
    [authorName |-> authorName, authorHandle |-> authorHandle,
     stopped |-> (authorName # "" /\ authorHandle # "")]

\* one iteration of the loop over userLinks
ScanStep ==
    /\ pc = "author"
    /\ lidx < Len(userLinks)
    /\ ~ScanState.stopped
    /\ LET s == ScanLink(ScanState, userLinks[lidx + 1]) IN
       /\ authorName' = s.authorName
       /\ authorHandle' = s.authorHandle
    /\ lidx' = lidx + 1
    /\ UNCHANGED <<allElements, title, passVars, filterVars, pc, userLinks,
                   postVars>>

\* the loop ends: the links are used up, or `break`
EndScan ==
    /\ pc = "author"
    /\ lidx = Len(userLinks) \/ ScanState.stopped
    /\ pc' = "scanned"
    /\ UNCHANGED <<meta, passVars, filterVars, linkVars, postVars>>

NextAuthor == ScanStep \/ EndScan

SpecAuthor == InitAuthor /\ [][NextAuthor]_vars

-----------------------------------------------------------------------------
(* The request handler POST *)

Urls ==
    {"",
     "not a url",
     "https://example.com/user/status/123",
     "https://x.com/user",
     "https://x.com/user/status/123",
     "https://x.com/i/article/456",
     "https://www.twitter.com/i/article/789",
     "https://x.com/user/status/123?ref=/i/article/456",
     "https://x.com/user/status/123?ref=/i/article/"}

\* request.json(): a body {url, authToken?} or one that does not parse
Requests ==
    {[parses |-> TRUE, url |-> u, authToken |-> a] :
        u \in Urls, a \in {"", "secret"}}
    \cup {NoRequest}

\* what the evaluate callback can find in a page: the title, the author
\* fields and the elements of the container
Page(t, name, handle, els) ==
    [title |-> t, authorName |-> name, authorHandle |-> handle,
     allElements |-> els]

Pages ==
    {Page("", "", "", <<>>),
     Page("", "", "", <<PShort>>),
     Page("", "", "", <<PLong>>),
     Page("My Title", "", "", <<El("H1", "My Title")>>),
     Page("My Title", "Real Author", "@follow_me", Scenario)}

\* what fetchTweetData can return
Tweet(text, images) == [text |-> text, images |-> images]

Tweets ==
    {Tweet("", <<>>), Tweet("Hello", <<>>),
     Tweet("", <<"https://pbs.twimg.com/media1?format=jpg&name=large">>)}

Json(status, message) == [status |-> status, error |-> message, filename |-> ""]

UrlRequired == "URL is required"
InvalidUrl == "Invalid Twitter/X URL. Please provide a valid tweet or article URL."
NoArticleId == "Could not extract article ID from URL."
AuthRequired ==
    "Articles require authentication. Please provide at least the auth_token cookie."
NoArticleContent ==
    "Could not extract article content. The article may be private or deleted."
NoTweetId == "Could not extract tweet ID from URL."
NoTweetContent ==
    "Could not extract tweet content. The tweet may be private or deleted."
ConversionFailed(message) == "Failed to convert to PDF: " \o message

\* return NextResponse.json({ error }, { status })
Return(status, message) ==
    /\ response' = Json(status, message)
    /\ ppc' = "responded"

\* a step throws: the exception is in flight at the handler named by to
Throw(message, to) ==
    /\ error' = message
    /\ ppc' = to

InitPost ==
    /\ request \in Requests
    /\ ppc = "start"
    /\ response = NoResponse
    /\ fileId = ""
    /\ error = ""
    /\ openBrowsers = 0
    /\ launched = 0
    /\ scrapeCalls = 0
    /\ fetchCalls = 0
    /\ pdfCalls = 0
    /\ allElements = <<>>
    /\ title = ""
    /\ authorName = ""
    /\ authorHandle = ""
    /\ InitPass
    /\ content = PassInit.content
    /\ pc = "author"
    /\ NoLinks

scrapeVars == <<meta, passVars, filterVars, pc, linkVars>>

\* POST from its entry to the call of scrapeArticle or of fetchTweetData
Validate ==
    /\ ppc = "start"
    /\ IF ~request.parses
       THEN /\ Throw("Unexpected end of JSON input", "catch")
            /\ UNCHANGED <<response, scrapeCalls>>
       ELSE IF request.url = ""
       THEN Return(400, UrlRequired) /\ UNCHANGED <<error, scrapeCalls>>
       ELSE IF ~isValidTwitterUrl(request.url)
       THEN Return(400, InvalidUrl) /\ UNCHANGED <<error, scrapeCalls>>
       ELSE IF isArticleUrl(request.url)
       THEN IF extractArticleId(request.url) = ""
            THEN Return(400, NoArticleId) /\ UNCHANGED <<error, scrapeCalls>>
            ELSE IF request.authToken = ""
            THEN Return(400, AuthRequired) /\ UNCHANGED <<error, scrapeCalls>>
            ELSE /\ ppc' = "scrape"
                 /\ scrapeCalls' = scrapeCalls + 1
                 /\ UNCHANGED <<response, error>>
       ELSE IF extractTweetId(request.url) = ""
            THEN Return(400, NoTweetId) /\ UNCHANGED <<error, scrapeCalls>>
            ELSE /\ ppc' = "fetch"
                 /\ UNCHANGED <<response, error, scrapeCalls>>
    /\ UNCHANGED <<request, fileId, openBrowsers, launched, fetchCalls, pdfCalls,
                   scrapeVars>>

\* const browser = await getBrowser(), before the try block
GetBrowser ==
    /\ ppc \in {"scrape", "pdf"}
    /\ launched' = launched + 1
    /\ \/ /\ openBrowsers' = openBrowsers + 1
          /\ ppc' = IF ppc = "scrape" THEN "navigate" ELSE "render"
          /\ UNCHANGED error
       \/ /\ Throw("Failed to launch the browser process", "catch")
          /\ UNCHANGED openBrowsers
    /\ UNCHANGED <<request, response, fileId, scrapeCalls, fetchCalls, pdfCalls,
                   scrapeVars>>

\* newPage, setUserAgent, setViewport, setCookie, goto, waitForSelector
Navigate ==
    /\ ppc = "navigate"
    /\ \/ ppc' = "evaluate" /\ UNCHANGED error
       \/ Throw("Navigation timeout of 30000 ms exceeded", "scrape_catch")
    /\ UNCHANGED <<request, response, fileId, openBrowsers, launched,
                   scrapeCalls, fetchCalls, pdfCalls, scrapeVars>>

\* the scroll and the evaluate callback that extracts articleData
Evaluate ==
    /\ ppc = "evaluate"
    /\ \/ \E page \in Pages :
            /\ title' = page.title
            /\ authorName' = page.authorName
            /\ authorHandle' = page.authorHandle
            /\ allElements' = page.allElements
            /\ content' = ExtractedContent(page.allElements,
                              [title |-> page.title,
                               authorName |-> page.authorName,
                               authorHandle |-> page.authorHandle])
            /\ pc' = "done"
            /\ ppc' = "screenshot"
            /\ UNCHANGED error
       \/ /\ Throw("Execution context was destroyed", "scrape_catch")
          /\ UNCHANGED <<meta, content, pc>>
    /\ UNCHANGED <<request, response, fileId, openBrowsers, launched,
                   scrapeCalls, fetchCalls, pdfCalls, idx, seenTexts,
                   seenImages, foundFirstContent, reachedFooter,
                   headerImageCount, skippedAfterTitle, filterVars, linkVars>>

\* page.screenshot
Screenshot ==
    /\ ppc = "screenshot"
    /\ \/ ppc' = "scrape_close" /\ UNCHANGED error
       \/ Throw("Unable to capture screenshot", "scrape_catch")
    /\ UNCHANGED <<request, response, fileId, openBrowsers, launched,
                   scrapeCalls, fetchCalls, pdfCalls, scrapeVars>>

\* await browser.close() before the return
CloseOnReturn(n) == n - 1

\* the close of the catch block left out
CloseInCatch_Missing(n) == n

\* await browser.close() in the catch block
CloseInCatch(n) == n - 1

\* browser.close(); return ...: the end of the try block of either function
CloseAndReturn ==
    /\ ppc \in {"scrape_close", "pdf_close"}
    /\ openBrowsers' = CloseOnReturn(openBrowsers)
    /\ ppc' = IF ppc = "scrape_close" THEN "check" ELSE "respond"
    /\ UNCHANGED <<request, response, fileId, error, launched, scrapeCalls,
                   fetchCalls, pdfCalls, scrapeVars>>

\* catch (error) { await browser.close(); throw error; } of either function
CloseAndRethrow ==
    /\ ppc \in {"scrape_catch", "pdf_catch"}
    /\ openBrowsers' = CloseInCatch(openBrowsers)
    /\ ppc' = "catch"
    /\ UNCHANGED <<request, response, fileId, error, launched, scrapeCalls,
                   fetchCalls, pdfCalls, scrapeVars>>

\* the test with "or" for "and"
IsExtractionEmpty_Either(data) == data.title = "" \/ Len(data.content) = 0

\* !articleData.title && articleData.content.length === 0
IsExtractionEmpty(data) == data.title = "" /\ Len(data.content) = 0

\* POST after scrapeArticle has returned, up to the call of generatePDF
CheckExtraction ==
    /\ ppc = "check"
    /\ IF IsExtractionEmpty([title |-> title, content |-> content])
       THEN /\ Return(400, NoArticleContent)
            /\ UNCHANGED <<fileId, pdfCalls>>
       ELSE /\ fileId' = "article-" \o extractArticleId(request.url)
            /\ pdfCalls' = pdfCalls + 1
            /\ ppc' = "pdf"
            /\ UNCHANGED response
    /\ UNCHANGED <<request, error, openBrowsers, launched, scrapeCalls,
                   fetchCalls, scrapeVars>>

\* fetchTweetData and POST after it, up to the call of generatePDF
FetchTweet ==
    /\ ppc = "fetch"
    /\ fetchCalls' = fetchCalls + 1
    /\ \/ /\ Throw("Failed to fetch tweet: 404", "catch")
          /\ UNCHANGED <<response, fileId, pdfCalls>>
       \/ \E tweetData \in Tweets :
            IF tweetData.text = "" /\ Len(tweetData.images) = 0
            THEN /\ Return(400, NoTweetContent)
                 /\ UNCHANGED <<error, fileId, pdfCalls>>
            ELSE /\ fileId' = "tweet-" \o extractTweetId(request.url)
                 /\ pdfCalls' = pdfCalls + 1
                 /\ ppc' = "pdf"
                 /\ UNCHANGED <<response, error>>
    /\ UNCHANGED <<request, openBrowsers, launched, scrapeCalls, scrapeVars>>

\* newPage, setContent and the wait for the images
RenderPage ==
    /\ ppc = "render"
    /\ \/ ppc' = "print" /\ UNCHANGED error
       \/ Throw("Navigation timeout of 30000 ms exceeded", "pdf_catch")
    /\ UNCHANGED <<request, response, fileId, openBrowsers, launched,
                   scrapeCalls, fetchCalls, pdfCalls, scrapeVars>>

\* page.pdf
PrintPdf ==
    /\ ppc = "print"
    /\ \/ ppc' = "pdf_close" /\ UNCHANGED error
       \/ Throw("Printing failed", "pdf_catch")
    /\ UNCHANGED <<request, response, fileId, openBrowsers, launched,
                   scrapeCalls, fetchCalls, pdfCalls, scrapeVars>>

\* return new NextResponse(pdf, { status: 200, ... })
Respond ==
    /\ ppc = "respond"
    /\ response' = [status |-> 200, error |-> "", filename |-> fileId \o ".pdf"]
    /\ ppc' = "responded"
    /\ UNCHANGED <<request, fileId, error, openBrowsers, launched, scrapeCalls,
                   fetchCalls, pdfCalls, scrapeVars>>

\* the catch block of POST
Catch ==
    /\ ppc = "catch"
    /\ Return(500, ConversionFailed(error))
    /\ UNCHANGED <<request, fileId, error, openBrowsers, launched, scrapeCalls,
                   fetchCalls, pdfCalls, scrapeVars>>

NextPost ==
    \/ Validate
    \/ GetBrowser
    \/ Navigate
    \/ Evaluate
    \/ Screenshot
    \/ CloseAndReturn
    \/ CloseAndRethrow
    \/ CheckExtraction
    \/ FetchTweet
    \/ RenderPage
    \/ PrintPdf
    \/ Respond
    \/ Catch

SpecPost == InitPost /\ [][NextPost]_vars

TypeOK ==
    /\ pc \in {"author", "scanned", "pass", "filter", "done"}
    /\ lidx \in 0..Len(userLinks)
    /\ response.status \in {0, 200, 400, 500}
    /\ openBrowsers \in 0..1
    /\ launched \in 0..2
    /\ scrapeCalls \in 0..1
    /\ fetchCalls \in 0..1
    /\ pdfCalls \in 0..1
    /\ idx \in 0..Len(allElements)
    /\ pc = "filter" => fidx \in 0..Len(content)
    /\ foundFirstContent \in BOOLEAN
    /\ reachedFooter \in BOOLEAN
    /\ foundRealParagraph \in BOOLEAN
    /\ skippedAfterTitle \in Nat
    /\ headerImageCount \in Nat

-----------------------------------------------------------------------------
(* Footer detection *)

\* element j is a text element whose trimmed text is the extracted author name
IsAuthorRepeat(j) ==
    /\ allElements[j].tagName # "IMG"
    /\ authorName # ""
    /\ trim(allElements[j].textContent) = authorName

\* element j is a text element whose trimmed text starts with "More from"
IsMoreFrom(j) ==
    /\ allElements[j].tagName # "IMG"
    /\ startsWith(trim(allElements[j].textContent), "More from")

\* C1: once a text node equal to the non-empty author name has been passed
\* after content had started (foundFirstContent set and an item accepted),
\* no later element adds an item: the content stays what it was at that node.
C1_FooterHaltOnAuthorName ==
    pc = "pass" =>
        \A j \in 1..idx :
            LET before == RunPass(allElements, Meta, j - 1) IN
            (IsAuthorRepeat(j) /\ before.foundFirstContent /\ before.content # <<>>)
                => content = before.content

\* C2: once a text node starting with "More from" has been reached, the pass
\* is halted (reachedFooter), no later element is considered and none is added.
C2_FooterHaltOnMoreFrom ==
    pc = "pass" =>
        \A j \in 1..idx :
            IsMoreFrom(j) =>
                /\ reachedFooter
                /\ idx = j
                /\ content = RunPass(allElements, Meta, j - 1).content

-----------------------------------------------------------------------------
(* The noise filter *)

RawLen(item) == Len(rawTextOf(item.value))

IsCta(item) == item.type = "text" /\ IsCallToAction(rawTextOf(item.value))

\* three paragraphs of lengths 5, 60 and 8, none a call-to-action phrase
IsGateInput(c) ==
    /\ Len(c) = 3
    /\ \A k \in 1..3 : c[k].type = "text" /\ ~startsWith(c[k].value, "## ") /\ ~IsCta(c[k])
    /\ RawLen(c[1]) = 5
    /\ RawLen(c[2]) = 60
    /\ RawLen(c[3]) = 8

FilterFinished == pc = "filter" /\ fidx = Len(content)

\* C3 as stated: of three paragraphs of lengths 5, 60 and 8 the filter keeps
\* exactly the 60-character one.
C3_LengthGateOriginal ==
    (FilterFinished /\ IsGateInput(content)) => filteredContent = <<content[2]>>

\* C3 as amended: of three paragraphs of lengths 5, 60 and 8 the filter keeps
\* the 60-character one and the 8-character one after it, in that order; only
\* the 5-character paragraph is removed.
C3_LengthGate ==
    (FilterFinished /\ IsGateInput(content))
        => filteredContent = <<content[2], content[3]>>

C3_Witness ==
    /\ FilterFinished
    /\ IsGateInput(content)
    /\ Len(filteredContent) = 2
    /\ RawLen(filteredContent[2]) = 8

\* item j is a paragraph of length >= 50
IsLongParagraph(c, j) == c[j].type = "text" /\ RawLen(c[j]) >= 50

\* item j is a paragraph of length >= 50 that is not a call-to-action item
IsRealItem(c, j) == IsLongParagraph(c, j) /\ ~IsCta(c[j])

\* the items among the first n that the rule keeps, when flagged[k] says
\* that the flag has been set before item k
RECURSIVE Kept(_, _, _)
Kept(c, n, flagged) ==
    IF n = 0 THEN <<>>
    ELSE LET rest == Kept(c, n - 1, flagged) IN
         IF \/ c[n].type = "image"
            \/ ~IsCta(c[n]) /\ (RawLen(c[n]) >= 10 \/ flagged[n])
         THEN Append(rest, c[n])
         ELSE rest

LongBefore(c) == [k \in 1..(Len(c) + 1) |-> \E j \in 1..(k - 1) : IsLongParagraph(c, j)]

RealBefore(c) == [k \in 1..(Len(c) + 1) |-> \E j \in 1..(k - 1) : IsRealItem(c, j)]

\* C4 as stated: the flag is set by the first paragraph of length >= 50;
\* before that a paragraph shorter than 10 is dropped and one of 10 to 49 kept,
\* after it every item but the call-to-action ones is kept.
C4_FlagRuleOriginal ==
    pc = "filter" =>
        /\ foundRealParagraph <=> LongBefore(content)[fidx + 1]
        /\ filteredContent = Kept(content, fidx, LongBefore(content))

\* C4 as amended: the flag starts false and is set by the first paragraph of
\* length >= 50 that is not a call-to-action item; while it is false a
\* paragraph shorter than 10 is dropped and one of 10 to 49 is kept; once it
\* is set every item but the call-to-action ones is kept; it never returns to
\* false.
C4_FlagRule ==
    /\ [](pc = "filter" =>
            /\ foundRealParagraph <=> RealBefore(content)[fidx + 1]
            /\ filteredContent = Kept(content, fidx, RealBefore(content)))
    /\ [][foundRealParagraph => foundRealParagraph']_vars

\* a short paragraph dropped before the flag, one kept after it
C4_Witness ==
    /\ FilterFinished
    /\ Len(content) = 3
    /\ RawLen(content[1]) < 10 /\ content[1].type = "text"
    /\ IsRealItem(content, 2)
    /\ RawLen(content[3]) < 10 /\ content[3].type = "text" /\ ~IsCta(content[3])
    /\ foundRealParagraph
    /\ filteredContent = <<content[2], content[3]>>

-----------------------------------------------------------------------------
(* Images *)

Items(c) == {c[k] : k \in 1..Len(c)}

\* els is N >= 2 distinct qualifying images with one text element put
\* between the first and the second
IsImagesWithText(els) ==
    /\ Len(els) >= 3
    /\ els[2].tagName # "IMG"
    /\ \A k \in (1..Len(els)) \ {2} :
          els[k].tagName = "IMG" /\ QualifyingImage(els[k].src, {})
    /\ \A j, k \in (1..Len(els)) \ {2} : j # k => els[j].src # els[k].src

\* the text element of such an input is accepted as content
TextAccepted == Len(RunPass(allElements, Meta, 2).content) = 2

ImageOf(k) == Image(allElements[k].src)

\* C5 as stated: with a qualifying text node put between image 1 and image 2
\* all N images, image 2 and the last one included, are in the classifier's
\* output.
C5_ImagesAfterTextOriginal ==
    (pc # "pass" /\ IsImagesWithText(allElements) /\ TextAccepted)
        => \A k \in (1..Len(allElements)) \ {2} : ImageOf(k) \in Items(content)

\* C5 as amended: with a qualifying text node put between image 1 and image 2
\* the pass appends all N images; the trailing drop then removes the last of
\* them, so images 1 to N-1 are in the classifier's output and image N is not.
C5_ImagesAfterText ==
    (IsImagesWithText(allElements) /\ TextAccepted) =>
        LET n == Len(allElements) IN
        /\ (pc = "pass" /\ idx = n) =>
              \A k \in (1..n) \ {2} : ImageOf(k) \in Items(content)
        /\ pc # "pass" =>
              /\ \A k \in (1..(n - 1)) \ {2} : ImageOf(k) \in Items(content)
              /\ ImageOf(n) \notin Items(content)

\* three images or more around a text: image 2 is in the result, the last is not
C5_Witness ==
    /\ pc = "done"
    /\ IsImagesWithText(allElements)
    /\ TextAccepted
    /\ Len(allElements) >= 4
    /\ ImageOf(3) \in Items(content)
    /\ ImageOf(Len(allElements)) \notin Items(content)

CurEl == allElements[idx + 1]

InLoop == pc = "pass" /\ idx < Len(allElements) /\ ~reachedFooter

\* the loop is at a qualifying image whose URL has not been seen
AtNewImage ==
    InLoop /\ CurEl.tagName = "IMG" /\ QualifyingImage(CurEl.src, seenImages)

HasText(c) == \E k \in 1..Len(c) : c[k].type = "text"

\* C6 as stated: a qualifying image with a new URL is appended if and only if
\* it is the first qualifying image seen or a text item has already been
\* accepted into the content.
C6_ImageRuleOriginal ==
    [][AtNewImage =>
          IF seenImages = {} \/ HasText(content)
          THEN content' = Append(content, Image(CurEl.src))
          ELSE content' = content]_vars

\* C6 as amended: a qualifying image with a new URL is appended if and only
\* if it is the first qualifying image seen or foundFirstContent is already
\* set; so of the images met while foundFirstContent is false only the first
\* is appended, and every one met after it is set is appended.
C6_ImageRule ==
    [][AtNewImage =>
          IF seenImages = {} \/ foundFirstContent
          THEN content' = Append(content, Image(CurEl.src))
          ELSE content' = content]_vars

\* a second image dropped although a text item had been accepted before it
C6_Witness ==
    /\ pc = "pass"
    /\ idx >= 2
    /\ allElements[idx].tagName = "IMG"
    /\ allElements[idx].src \in seenImages
    /\ Cardinality(seenImages) = 2
    /\ ~foundFirstContent
    /\ HasText(content)
    /\ ImageOf(idx) \notin Items(content)

-----------------------------------------------------------------------------
(* Lead-in suppression *)

CurText == trim(CurEl.textContent)

\* the loop is at a text element that passes the skips and the footer check
\* while no substantial content has been found
AtLeadIn ==
    /\ InLoop
    /\ CurEl.tagName # "IMG"
    /\ ~SkippedText(CurText, PassState, Meta)
    /\ ~IsFooter(CurText, foundFirstContent, authorName)
    /\ ~foundFirstContent

AtLeadInPlain == AtLeadIn /\ ~IsHeading(CurEl, CurText)

\* the element is appended as a paragraph, or skipped by the container guard
AppendedIfLeaf ==
    IF ContainerGuard(CurEl) THEN content' = content
    ELSE content' = Append(content, Para(CurText))

SixShortThenLong == Repeat(PShort, 6) \o <<PLong>>

SevenShortThenLong == Repeat(PShort, 7) \o <<PLong>>

\* C7 as stated: before substantial content is found a non-heading text node
\* of 40 characters or more sets foundFirstContent and is not counted as a
\* discarded short node.
C7_SubstantialOriginal ==
    [][(AtLeadInPlain /\ Len(CurText) >= 40) =>
          /\ foundFirstContent'
          /\ skippedAfterTitle' # skippedAfterTitle + 1]_vars

\* C7 as amended: before substantial content is found a non-heading text node
\* of more than 40 characters sets foundFirstContent, is not counted and is not
\* discarded; one of 40 characters or fewer is counted as a short node and
\* leaves foundFirstContent false. Six short nodes followed by a node of more
\* than 40 characters leave that node alone in the content, marked as the
\* start of real content.
C7_Substantial ==
    /\ [][(AtLeadInPlain /\ Len(CurText) > 40) =>
             /\ foundFirstContent'
             /\ skippedAfterTitle' = 0
             /\ AppendedIfLeaf]_vars
    /\ [][(AtLeadInPlain /\ Len(CurText) <= 40) =>
             /\ ~foundFirstContent'
             /\ skippedAfterTitle' = skippedAfterTitle + 1]_vars
    /\ []((allElements = SixShortThenLong /\ pc = "pass") =>
             /\ idx <= 6 => (content = <<>> /\ ~foundFirstContent)
             /\ idx = 7 => (content = <<Para(LongText)>> /\ foundFirstContent))

C7_Witness ==
    /\ allElements = SixShortThenLong
    /\ pc = "pass"
    /\ idx = 7
    /\ skippedAfterTitle = 0
    /\ foundFirstContent
    /\ content = <<Para(LongText)>>

\* C8 as stated: before substantial content is found the first 6 short
\* non-heading text nodes that pass the skips are discarded, and the 7th and
\* every later one is appended to the content.
C8_DiscardCapOriginal ==
    [][(AtLeadInPlain /\ Len(CurText) <= 40) =>
          IF skippedAfterTitle < 6
          THEN content' = content
          ELSE content' = Append(content, Para(CurText))]_vars

\* The cap as the code has it: the first 6 short non-heading text nodes that
\* pass the skips are discarded, and no more; the 7th and every later one is
\* appended to the content unless it is a DIV with block-level descendants,
\* which the container guard skips. Seven short nodes followed by a long node
\* leave the 7th short node and the long node in the content of the pass.
C8_DiscardCap ==
    /\ [][(AtLeadInPlain /\ Len(CurText) <= 40) =>
             IF skippedAfterTitle < 6
             THEN content' = content
             ELSE AppendedIfLeaf]_vars
    /\ []((allElements = SevenShortThenLong /\ pc = "pass") =>
             /\ idx <= 6 => content = <<>>
             /\ idx = 7 => content = <<Para("short")>>
             /\ idx = 8 => content = <<Para("short"), Para(LongText)>>)

C8_Witness ==
    /\ allElements = SevenShortThenLong
    /\ pc = "pass"
    /\ idx = 8
    /\ content = <<Para("short"), Para(LongText)>>

-----------------------------------------------------------------------------
(* Trailing drop and the end-to-end scenario *)

\* the content the pass has collected when its loop ends
PassContent == RunPass(allElements, Meta, Len(allElements)).content

\* C9: when the pass is over, a content of more than one item loses its last
\* item and keeps the others unchanged and in order; a content of one item or
\* of none is left as it is.
C9_TrailingDrop ==
    [][(pc = "pass" /\ pc' = "filter") =>
          IF Len(content) > 1
          THEN /\ Len(content') = Len(content) - 1
               /\ \A k \in 1..Len(content') : content'[k] = content[k]
          ELSE content' = content]_vars

\* a pass result of two items has become its first item
C9_Witness ==
    /\ pc = "filter"
    /\ fidx = 0
    /\ Len(content) = 1
    /\ Len(PassContent) = 2
    /\ content[1] = PassContent[1]

\* C10: with title "My Title", handle "@follow_me" and name "Real Author", the
\* scenario's elements give a final content of exactly one item, the long
\* paragraph.
C10_EndToEnd ==
    (/\ allElements = Scenario
     /\ title = "My Title"
     /\ authorHandle = "@follow_me"
     /\ authorName = "Real Author"
     /\ pc = "done")
        => content = <<Para(LongText)>>

\* the scenario has run to its end: the pass had collected the paragraph and
\* the image, the result is the paragraph
C10_Witness ==
    /\ allElements = Scenario
    /\ authorName = "Real Author"
    /\ pc = "done"
    /\ PassContent = <<Para(LongText), Image("https://pbs.twimg.com/media1")>>
    /\ content = <<Para(LongText)>>

-----------------------------------------------------------------------------
(* The container guard *)

\* element j is a DIV with block-level descendants
IsContainerAt(j) == ContainerGuard(allElements[j])

\* the elements without element j
WithoutElement(j) ==
    SubSeq(allElements, 1, j - 1) \o SubSeq(allElements, j + 1, Len(allElements))

\* C13: a DIV that has block-level descendants is skipped entirely: the
\* content extracted from the elements is the content extracted from the
\* elements with that DIV deleted.
C13_ContainerGuardFrame ==
    pc = "done" =>
        \A j \in 1..Len(allElements) :
            IsContainerAt(j) => content = ExtractedContent(WithoutElement(j), Meta)

-----------------------------------------------------------------------------
(* Author extraction *)

\* link j is a user link whose trimmed text starts with "@"
IsHandleLink(j) ==
    /\ IsUserLink(userLinks[j].href)
    /\ startsWith(trim(userLinks[j].textContent), "@")

\* link j is another user link with a non-empty text of fewer than 50 characters
IsNameLink(j) ==
    /\ IsUserLink(userLinks[j].href)
    /\ ~startsWith(trim(userLinks[j].textContent), "@")
    /\ trim(userLinks[j].textContent) # ""
    /\ Len(trim(userLinks[j].textContent)) < 50

\* the trimmed text of the first of the links scanned so far that P holds of
FirstText(P(_)) ==
    IF \E j \in 1..lidx : P(j)
    THEN LET j == CHOOSE j \in 1..lidx : P(j) /\ \A k \in 1..(j - 1) : ~P(k) IN
         trim(userLinks[j].textContent)
    ELSE ""

\* C14: at every point of the scan the handle is the text of the first user
\* link scanned whose text starts with "@" and the display name is the text
\* of the first other user link with a non-empty text of fewer than 50
\* characters; once both are set no further link is scanned.
C14_AuthorFirstMatches ==
    pc \in {"author", "scanned"} =>
        /\ authorHandle = FirstText(IsHandleLink)
        /\ authorName = FirstText(IsNameLink)
        /\ \A j \in 1..(lidx - 1) :
              ~ScanLinks(userLinks, j).stopped

-----------------------------------------------------------------------------
(* The request handler: failed extraction *)

\* C11: when scrapeArticle has returned, an empty title together with an empty
\* content makes POST answer 400 with a JSON error and generatePDF is not
\* called; a title or a content that is not empty makes POST go on to the
\* call of generatePDF without answering.
C11_ExtractionEmpty ==
    /\ [][ppc = "check" =>
             IF title = "" /\ content = <<>>
             THEN /\ response' = Json(400, NoArticleContent)
                  /\ ppc' = "responded"
                  /\ pdfCalls' = 0
             ELSE /\ response' = NoResponse
                  /\ ppc' = "pdf"
                  /\ pdfCalls' = pdfCalls + 1]_vars
    /\ [](response = Json(400, NoArticleContent) =>
             /\ ppc = "responded"
             /\ pdfCalls = 0
             /\ fileId = "")
    /\ []((scrapeCalls = 1 /\ pdfCalls = 1) => ~(title = "" /\ content = <<>>))

\* a page whose only element is discarded as lead-in: no title, no content,
\* answer 400, no PDF
C11_Witness ==
    /\ ppc = "responded"
    /\ scrapeCalls = 1
    /\ allElements = <<PShort>>
    /\ title = ""
    /\ content = <<>>
    /\ response = Json(400, NoArticleContent)
    /\ pdfCalls = 0

-----------------------------------------------------------------------------
(* The request handler: validation *)

\* the url is not an absolute URL, or its host is none of the four hosts, or
\* its path is neither /<user>/status/<digits> nor /i/article/<digits>
IsRejectedUrl(url) ==
    LET parsed == ParseUrl(url) IN
    \/ ~parsed.ok
    \/ ~IsValidHost(parsed.hostname)
    \/ ~TestTweetPath(parsed.pathname) /\ ~TestArticlePath(parsed.pathname)

\* C12: a request whose body has no url, or a url that is rejected, is
\* answered 400 with a JSON error by the first step of POST, and in that
\* request no browser is launched, scrapeArticle, fetchTweetData and
\* generatePDF are never called.
C12_ValidationFirst ==
    (/\ request.parses
     /\ request.url = "" \/ IsRejectedUrl(request.url)
     /\ ppc # "start")
        => /\ ppc = "responded"
           /\ response.status = 400
           /\ response.error \in {UrlRequired, InvalidUrl}
           /\ launched = 0
           /\ openBrowsers = 0
           /\ scrapeCalls = 0
           /\ fetchCalls = 0
           /\ pdfCalls = 0

\* a tweet path on a foreign host has been answered 400
C12_Witness ==
    /\ request.url = "https://example.com/user/status/123"
    /\ ppc = "responded"
    /\ response = Json(400, InvalidUrl)
    /\ launched = 0
    /\ fetchCalls = 0

-----------------------------------------------------------------------------
(* The request handler: dispatch *)

\* C15: a url accepted by isValidTwitterUrl is handled as an article (auth
\* required, scrapeArticle, file article-<id>) exactly when its pathname
\* matched /i/article/<digits>, and otherwise as a tweet (fetchTweetData,
\* file tweet-<id>); the id of the file is the id of the pathname.
C15_ValidationDispatchAgree ==
    (/\ request.parses
     /\ request.url # ""
     /\ isValidTwitterUrl(request.url)
     /\ ppc # "start")
        => LET pathname == ParseUrl(request.url).pathname IN
           IF TestArticlePath(pathname)
           THEN /\ fetchCalls = 0
                /\ request.authToken = "" => response = Json(400, AuthRequired)
                /\ request.authToken # "" => scrapeCalls = 1
                /\ fileId # "" => fileId = "article-" \o MatchId(pathname, "article/")
           ELSE /\ scrapeCalls = 0
                /\ ppc \notin {"scrape", "navigate", "evaluate", "screenshot",
                               "scrape_close", "scrape_catch", "check"}
                /\ response.error \notin {AuthRequired, NoArticleId}
                /\ fileId # "" => fileId = "tweet-" \o MatchId(pathname, "status/")

-----------------------------------------------------------------------------
(* The browser of scrapeArticle and of generatePDF *)

\* C16: no browser is open outside the try blocks of scrapeArticle and of
\* generatePDF, so none is open when POST answers; when a step after the
\* launch throws, the browser is closed and the same error goes on to the
\* handler of POST, which answers 500 with its message.
C16_NoBrowserOutlives ==
    /\ [](ppc \in {"start", "scrape", "fetch", "check", "pdf", "respond",
                   "catch", "responded"} => openBrowsers = 0)
    /\ [](openBrowsers \in 0..1)
    /\ [][(ppc \in {"scrape_close", "pdf_close"}) =>
             (ppc' \in {"check", "respond"} /\ openBrowsers' = 0)]_vars
    /\ [][(ppc \in {"scrape_catch", "pdf_catch"}) =>
             (openBrowsers' = 0 /\ error' = error /\ ppc' = "catch")]_vars
    /\ [][(ppc = "catch") => (response' = Json(500, ConversionFailed(error)))]_vars

\* the article was scraped, the PDF print threw: both browsers are closed
\* and the answer is 500 with the error of the print
C16_Witness ==
    /\ ppc = "responded"
    /\ scrapeCalls = 1
    /\ launched = 2
    /\ openBrowsers = 0
    /\ error = "Printing failed"
    /\ response = Json(500, ConversionFailed("Printing failed"))

====
